---- MODULE Spec2Model ----
(***************************************************************************)
(* Model of ib_ape_trader.py: one daily trading cycle (main) together with *)
(* the retry loops of fetch_trending_stocks and connect_ib.                *)
(*                                                                         *)
(* Money is counted in cents.  The broker and the trend source only hand   *)
(* out whole-dollar amounts here, so the products with 0.95 and 0.25 are   *)
(* exact integers; allocation_per_stock is kept as the exact fraction      *)
(* num/den.  (The float NaN that ib_insync reports for a missing price is  *)
(* not modelled; a missing price is 0 or -1.)                              *)
(***************************************************************************)
EXTENDS Integers, Sequences, FiniteSets, TLC

\* ---------------------------------------------------------------- bounds
\* largest `retries` argument tried on fetch_trending_stocks alone
MaxRetriesArg == 4
\* longest results array the trend source answers with
MaxResults == 11
\* most tickers of one run for which the broker has a positive price
MaxPriced == 2

\* ------------------------------------------------------ program constants
\* STARTING_CAPITAL = 1000, in cents
STARTING_CAPITAL == 100000
RESERVE_FUND == 0
\* RESERVE_PERCENTAGE = 0.25, as a percentage
RESERVE_PERCENTAGE == 25
\* the 0.95 factor of get_available_funds, as a percentage
FUNDS_FACTOR == 95
\* the [:10] slice of fetch_trending_stocks
TopN == 10
\* range(3) in connect_ib
CONNECT_RETRIES == 3
\* defaults of fetch_trending_stocks(retries=3, delay=5)
DEFAULT_RETRIES == 3
DEFAULT_DELAY == 5
\* time.sleep(5) in connect_ib
CONNECT_DELAY == 5

\* MARKET_TIMES: exchange code -> {"open": (h, m), "close": (h, m)}
MARKET_TIMES ==
  [ NYSE   |-> [open |-> <<9, 30>>, close |-> <<15, 55>>],
    NASDAQ |-> [open |-> <<9, 30>>, close |-> <<15, 55>>],
    TSX    |-> [open |-> <<9, 30>>, close |-> <<15, 55>>],
    LSE    |-> [open |-> <<8, 0>>,  close |-> <<16, 25>>],
    TSE    |-> [open |-> <<9, 0>>,  close |-> <<13, 25>>] ]

\* ------------------------------------------------------------ environment
\* exchange codes the trend source reports; ASX is not a key of MARKET_TIMES
Exchanges == <<"NASDAQ", "TSX", "LSE", "TSE", "ASX", "NYSE">>

\* the k-th entry of the trend source's ranking: item['ticker'], item['exchange']
Item(k) == [ticker |-> k, exchange |-> Exchanges[(k % Len(Exchanges)) + 1]]

\* a results array of n entries
Results(n) == [k \in 1..n |-> Item(k)]

\* lengths of the results arrays the source answers with
ResultSizes == {0, 1, 2, TopN, MaxResults}

\* outcomes of one requests.get + raise_for_status + json
\*   transport : requests.get raises a RequestException
\*   http      : raise_for_status raises HTTPError (a RequestException)
\*   badjson   : response.json() raises a ValueError
\*   ok        : a JSON body with a results array
Responses ==
  {[kind |-> "transport", results |-> <<>>],
   [kind |-> "http", results |-> <<>>],
   [kind |-> "badjson", results |-> <<>>]}
  \cup {[kind |-> "ok", results |-> Results(n)] : n \in ResultSizes}

NoResponse == [kind |-> "none", results |-> <<>>]

\* NetLiquidation values of the account summary, in cents
NetLiquidations == {-200000, 0, 200000}

\* holdings the broker reports to ib.positions() at the start of the run
HoldingsOptions ==
  {<<>>, <<[symbol |-> 101, position |-> 5], [symbol |-> 102, position |-> 7]>>}

\* market data snapshots: last trade price and previous close, in cents
\* (0: no last trade; -100: the broker's -1 for "no price")
PricedTicks ==
  {[last |-> 25000, close |-> 24000],
   [last |-> 0, close |-> 9000]}
UnpricedTicks == {[last |-> 0, close |-> -100]}

\* trade.orderStatus.status after ib.sleep(2)
Statuses == {"Filled", "Submitted", "Cancelled"}

VARIABLES
  pc,                 \* position of main: the statement to run next
  abort_cause,        \* the exception that ended the run, "" when none
  connected,          \* the IB session is connected
  conn_attempt,       \* connect_ib: attempts made (loop variable _)
  holdings,           \* broker side: what ib.positions() reports
  net_liquidation,    \* broker side: NetLiquidation of the account summary
  orders,             \* broker side: orders received through ib.placeOrder
  retries,            \* fetch_trending_stocks: argument retries
  delay,              \* fetch_trending_stocks: argument delay
  attempt,            \* fetch_trending_stocks: attempts made (= calls of requests.get)
  last_response,      \* trend source: the answer to the latest requests.get
  slept,              \* seconds spent in time.sleep by the two retry loops
  stocks,             \* main: stocks
  reserve_fund,       \* main: reserve_fund
  reserve_writes,     \* number of times `reserve_fund += ...` ran
  funds_reads,        \* number of calls of ib.accountSummary
  available_funds,    \* main: available_funds
  allocation_per_stock, \* main: allocation_per_stock, as num/den
  positions,          \* main: positions, entries (contract, quantity, exchange)
  buy_prices,         \* market_price at the moment positions[k] was appended
  i,                  \* buy loop: index of the next entry of stocks
  priced,             \* tickers of this run that had a positive price
  market_price,       \* main: market_price
  quantity,           \* main: quantity
  quantities,         \* quantity computed for stocks[k], in loop order
  close_time,         \* main: close_time
  total_profit,       \* main: total_profit
  daily_reserve,      \* main: daily_reserve
  phases,             \* phases of the run completed so far, in order
  log                 \* messages passed to log()

vars == <<pc, abort_cause, connected, conn_attempt, holdings, net_liquidation,
          orders, retries, delay, attempt, last_response, slept, stocks,
          reserve_fund, reserve_writes, funds_reads, available_funds,
          allocation_per_stock, positions, buy_prices, i, priced, market_price,
          quantity, quantities, close_time, total_profit, daily_reserve,
          phases, log>>

\* ---------------------------------------------------------------- helpers
\* Python's x * p / 100 on the whole-dollar amounts used here (exact)
Percent(x, p) ==
  IF x >= 0 THEN (x * p) \div 100 ELSE -(((-x) * p) \div 100)

\* int(num / den) for den > 0: truncation toward zero
TruncDiv(num, den) ==
  IF num >= 0 THEN num \div den ELSE -((-num) \div den)

\* floor(num / den) for den > 0
FloorDiv(num, den) ==
  IF num >= 0 THEN num \div den ELSE -(((-num) + den - 1) \div den)

\* data.get('results', [])[:10] turned into (ticker, exchange) pairs
ParseStocks(results) ==
  [k \in 1..(IF Len(results) < TopN THEN Len(results) ELSE TopN) |->
     <<results[k].ticker, results[k].exchange>>]

\* (net_liquidation - reserve_fund) * 0.95
get_available_funds(net, reserve) == Percent(net - reserve, FUNDS_FACTOR)

\* MARKET_TIMES.get(exchange, MARKET_TIMES["NYSE"])
get_market_times(exchange) ==
  IF exchange \in DOMAIN MARKET_TIMES THEN MARKET_TIMES[exchange]
  ELSE MARKET_TIMES["NYSE"]

\* market_data.last if market_data.last else market_data.close
MarketPrice(tick) == IF tick.last # 0 THEN tick.last ELSE tick.close

\* the whole of the available funds spent on every ticker
Quantity_WholeFunds(alloc, price) ==
  IF price > 0 THEN TruncDiv(alloc.num, price) ELSE 0

\* the quantity rounded down instead of truncated
Quantity_Floor(alloc, price) ==
  IF price > 0 THEN FloorDiv(alloc.num, alloc.den * price) ELSE 0

\* int(allocation_per_stock / market_price) if market_price > 0 else 0
Quantity(alloc, price) ==
  IF price > 0 THEN TruncDiv(alloc.num, alloc.den * price) ELSE 0

\* total_profit * RESERVE_PERCENTAGE
DailyReserve(profit) == Percent(profit, RESERVE_PERCENTAGE)

\* (trade.orderStatus.avgFillPrice - market_price) * quantity
ProfitContribution(avgFillPrice, price, qty) == (avgFillPrice - price) * qty

Abort(cause) ==
  /\ pc' = "aborted"
  /\ abort_cause' = cause

\* ------------------------------------------------------- Python values
\* a str and a tuple of ints, as they reach datetime.time(*close_time)
PyStr(s) == [tag |-> "str", str |-> s]
PyTuple(t) == [tag |-> "tuple", items |-> t]
PyNone == [tag |-> "none"]

\* `_, close_time = d` on a dict d: iterating a dict yields its KEYS, in
\* insertion order; every MARKET_TIMES entry was built as {"open", "close"}
UnpackPair(d) == <<PyStr("open"), PyStr("close")>>

\* datetime.time(*v): a tuple (h, m) gives the time h:m; the characters of
\* a str are not integers and raise TypeError
DatetimeTime(v) ==
  IF v.tag = "tuple"
  THEN [tag |-> "time", h |-> v.items[1], m |-> v.items[2]]
  ELSE [tag |-> "TypeError"]

\* ------------------------------------------------------------------ Init
\* everything of a run that does not depend on who calls what
InitCommon ==
  /\ abort_cause = ""
  /\ conn_attempt = 0
  /\ holdings \in HoldingsOptions
  /\ net_liquidation \in NetLiquidations
  /\ orders = <<>>
  /\ attempt = 0
  /\ last_response = NoResponse
  /\ slept = 0
  /\ stocks = <<>>
  /\ reserve_fund = RESERVE_FUND
  /\ reserve_writes = 0
  /\ funds_reads = 0
  /\ available_funds = 0
  /\ allocation_per_stock = [num |-> 0, den |-> 1]
  /\ positions = <<>>
  /\ buy_prices = <<>>
  /\ i = 1
  /\ priced = 0
  /\ market_price = 0
  /\ quantity = 0
  /\ quantities = <<>>
  /\ close_time = PyNone
  /\ total_profit = 0
  /\ daily_reserve = 0
  /\ phases = <<>>
  /\ log = <<>>

\* main() is entered; fetch_trending_stocks() will be called with its defaults
Init ==
  /\ InitCommon
  /\ pc = "connect"
  /\ connected = FALSE
  /\ retries = DEFAULT_RETRIES
  /\ delay = DEFAULT_DELAY

\* ------------------------------------------------------------ connect_ib
\* one attempt more than range(3) allows
ConnHasAttemptLeft_OneMore == conn_attempt <= CONNECT_RETRIES

\* the loop `for _ in range(3)` has an iteration left
ConnHasAttemptLeft == conn_attempt < CONNECT_RETRIES

ConnectOk ==
  /\ pc = "connect"
  /\ ConnHasAttemptLeft
  /\ conn_attempt' = conn_attempt + 1
  /\ connected' = TRUE
  /\ phases' = Append(phases, "Connected")
  /\ pc' = "liquidate"
  /\ UNCHANGED <<abort_cause, holdings, net_liquidation, orders, retries, delay,
                 attempt, last_response, slept, stocks, reserve_fund,
                 reserve_writes, funds_reads, available_funds,
                 allocation_per_stock, positions, buy_prices, i, priced,
                 market_price, quantity, quantities, close_time, total_profit,
                 daily_reserve, log>>

ConnectFail ==
  /\ pc = "connect"
  /\ ConnHasAttemptLeft
  /\ conn_attempt' = conn_attempt + 1
  /\ log' = Append(log, "IB connection failed")
  /\ slept' = slept + CONNECT_DELAY
  /\ UNCHANGED <<pc, abort_cause, connected, holdings, net_liquidation, orders,
                 retries, delay, attempt, last_response, stocks,
                 reserve_fund, reserve_writes, funds_reads, available_funds,
                 allocation_per_stock, positions, buy_prices, i, priced,
                 market_price, quantity, quantities, close_time, total_profit,
                 daily_reserve, phases>>

ConnectExhausted ==
  /\ pc = "connect"
  /\ ~ConnHasAttemptLeft
  /\ Abort("BrokerConnectExhausted")
  /\ UNCHANGED <<connected, conn_attempt, holdings, net_liquidation, orders,
                 retries, delay, attempt, last_response, slept, stocks,
                 reserve_fund, reserve_writes, funds_reads, available_funds,
                 allocation_per_stock, positions, buy_prices, i, priced,
                 market_price, quantity, quantities, close_time, total_profit,
                 daily_reserve, phases, log>>

\* --------------------------------------------------- close_all_positions
\* the liquidation order placed on the wrong side
LiquidationSide_Buy == "BUY"

\* MarketOrder('SELL', pos.position)
LiquidationSide == "SELL"

\* the reserve starts from the capital instead of from nothing
ReserveAtStart_Capital == STARTING_CAPITAL

\* reserve_fund = 0
ReserveAtStart == 0

\* one share sold instead of the whole holding
LiquidationOrder_OneShare(pos) ==
  [origin |-> "liquidate", side |-> LiquidationSide, symbol |-> pos.symbol,
   qty |-> 1, status |-> "unread"]

\* ib.placeOrder(pos.contract, MarketOrder('SELL', pos.position)); the
\* trade that placeOrder returns is dropped, its status never read
LiquidationOrder(pos) ==
  [origin |-> "liquidate", side |-> LiquidationSide, symbol |-> pos.symbol,
   qty |-> pos.position, status |-> "unread"]

\* the last holding left out of the loop
LiquidationOrders_SkipLast(held) ==
  [k \in 1..(Len(held) - 1) |-> LiquidationOrder(held[k])]

\* for pos in positions: one order per holding, in the order reported
LiquidationOrders(held) ==
  [k \in 1..Len(held) |-> LiquidationOrder(held[k])]

\* close_all_positions(ib), then reserve_fund = 0
CloseAllPositions ==
  /\ pc = "liquidate"
  /\ orders' = orders \o LiquidationOrders(holdings)
  /\ log' = Append(log, "Closed all open positions.")
  /\ reserve_fund' = ReserveAtStart
  /\ phases' = Append(phases, "Liquidated")
  /\ pc' = "fetch"
  /\ UNCHANGED <<abort_cause, connected, conn_attempt, holdings, net_liquidation,
                 retries, delay, attempt, last_response, slept, stocks,
                 reserve_writes, funds_reads, available_funds,
                 allocation_per_stock, positions, buy_prices, i, priced,
                 market_price, quantity, quantities, close_time, total_profit,
                 daily_reserve>>

\* ------------------------------------------------- fetch_trending_stocks
\* the check `if not stocks` left out
AttemptFails_NoEmptyCheck(resp) ==
  resp.kind \in {"transport", "http", "badjson"}

\* the attempt fails: RequestException, or ValueError (bad JSON, no stocks)
AttemptFails(resp) ==
  \/ resp.kind \in {"transport", "http", "badjson"}
  \/ resp.kind = "ok" /\ Len(ParseStocks(resp.results)) = 0

\* one attempt more than range(retries) allows
HasAttemptLeft_OneMore == attempt <= retries

\* the loop `for attempt in range(retries)` has an iteration left
HasAttemptLeft == attempt < retries

FetchOk ==
  /\ pc = "fetch"
  /\ HasAttemptLeft
  /\ \E resp \in Responses :
       /\ ~AttemptFails(resp)
       /\ last_response' = resp
       /\ stocks' = ParseStocks(resp.results)
  /\ attempt' = attempt + 1
  /\ phases' = Append(phases, "TickersAcquired")
  /\ pc' = "allocate"
  /\ UNCHANGED <<abort_cause, connected, conn_attempt, holdings, net_liquidation,
                 orders, retries, delay, slept, reserve_fund, reserve_writes,
                 funds_reads, available_funds, allocation_per_stock, positions,
                 buy_prices, i, priced, market_price, quantity, quantities,
                 close_time, total_profit, daily_reserve, log>>

FetchFail ==
  /\ pc = "fetch"
  /\ HasAttemptLeft
  /\ \E resp \in Responses :
       /\ AttemptFails(resp)
       /\ last_response' = resp
  /\ attempt' = attempt + 1
  /\ log' = Append(log, "API fetch failed")
  /\ slept' = slept + delay
  /\ UNCHANGED <<pc, abort_cause, connected, conn_attempt, holdings,
                 net_liquidation, orders, retries, delay, stocks, reserve_fund,
                 reserve_writes, funds_reads, available_funds,
                 allocation_per_stock, positions, buy_prices, i, priced,
                 market_price, quantity, quantities, close_time, total_profit,
                 daily_reserve, phases>>

FetchExhausted ==
  /\ pc = "fetch"
  /\ ~HasAttemptLeft
  /\ Abort("TrendFetchExhausted")
  /\ UNCHANGED <<connected, conn_attempt, holdings, net_liquidation, orders,
                 retries, delay, attempt, last_response, slept, stocks,
                 reserve_fund, reserve_writes, funds_reads, available_funds,
                 allocation_per_stock, positions, buy_prices, i, priced,
                 market_price, quantity, quantities, close_time, total_profit,
                 daily_reserve, phases, log>>

\* ------------------------------------------------------------------ main
\* available_funds = get_available_funds(ib, reserve_fund)
\* allocation_per_stock = available_funds / len(stocks); positions = []
Allocate ==
  /\ pc = "allocate"
  /\ funds_reads' = funds_reads + 1
  /\ available_funds' = get_available_funds(net_liquidation, reserve_fund)
  /\ IF Len(stocks) = 0
     THEN /\ Abort("ZeroDivisionError")
          /\ UNCHANGED <<allocation_per_stock, positions, buy_prices, i, phases>>
     ELSE /\ allocation_per_stock' = [num |-> available_funds', den |-> Len(stocks)]
          /\ positions' = <<>>
          /\ buy_prices' = <<>>
          /\ i' = 1
          /\ phases' = Append(phases, "Allocated")
          /\ pc' = "buy"
          /\ UNCHANGED abort_cause
  /\ UNCHANGED <<connected, conn_attempt, holdings, net_liquidation, orders,
                 retries, delay, attempt, last_response, slept, stocks,
                 reserve_fund, reserve_writes, priced, market_price, quantity,
                 quantities, close_time, total_profit, daily_reserve, log>>

\* market data the broker may answer with for the next ticker
TicksOnOffer ==
  UnpricedTicks \cup (IF priced < MaxPriced THEN PricedTicks ELSE {})

BuyOrder(symbol, qty, status) ==
  [origin |-> "buy", side |-> "BUY", symbol |-> symbol, qty |-> qty,
   status |-> status]

\* a zero quantity bought as well
ShouldBuy_NonNegative(qty) == qty >= 0

\* if quantity > 0
ShouldBuy(qty) == qty > 0

\* the funds read again and the budget recomputed in every iteration
BuyLeavesBudget_Reread ==
  /\ funds_reads' = funds_reads + 1
  /\ available_funds' = get_available_funds(net_liquidation, reserve_fund)
  /\ allocation_per_stock' = [num |-> available_funds', den |-> Len(stocks)]

\* the loop body assigns neither available_funds nor allocation_per_stock
\* and does not call get_available_funds
BuyLeavesBudget ==
  UNCHANGED <<funds_reads, available_funds, allocation_per_stock>>

\* one iteration of `for stock, exchange in stocks` that places no order
BuySkip ==
  /\ pc = "buy"
  /\ i <= Len(stocks)
  /\ \E tick \in TicksOnOffer :
       /\ market_price' = MarketPrice(tick)
       /\ quantity' = Quantity(allocation_per_stock, market_price')
       /\ priced' = IF market_price' > 0 THEN priced + 1 ELSE priced
  /\ ~ShouldBuy(quantity')
  /\ quantities' = Append(quantities, quantity')
  /\ i' = i + 1
  /\ BuyLeavesBudget
  /\ UNCHANGED <<pc, abort_cause, connected, conn_attempt, holdings,
                 net_liquidation, orders, retries, delay, attempt, last_response,
                 slept, stocks, reserve_fund, reserve_writes, positions,
                 buy_prices, close_time, total_profit, daily_reserve, phases,
                 log>>

\* one iteration of `for stock, exchange in stocks` that places a BUY order
BuyPlace ==
  /\ pc = "buy"
  /\ i <= Len(stocks)
  /\ \E tick \in TicksOnOffer :
       /\ market_price' = MarketPrice(tick)
       /\ quantity' = Quantity(allocation_per_stock, market_price')
       /\ priced' = IF market_price' > 0 THEN priced + 1 ELSE priced
  /\ ShouldBuy(quantity')
  /\ \E status \in Statuses :
       /\ orders' = Append(orders, BuyOrder(stocks[i][1], quantity', status))
       /\ log' = IF status \notin {"Filled", "Submitted"}
                 THEN Append(log, "Order failed") ELSE log
  /\ positions' = Append(positions, <<stocks[i][1], quantity', stocks[i][2]>>)
  /\ buy_prices' = Append(buy_prices, market_price')
  /\ quantities' = Append(quantities, quantity')
  /\ i' = i + 1
  /\ BuyLeavesBudget
  /\ UNCHANGED <<pc, abort_cause, connected, conn_attempt, holdings,
                 net_liquidation, retries, delay, attempt, last_response, slept,
                 stocks, reserve_fund, reserve_writes, close_time, total_profit,
                 daily_reserve, phases>>

\* the buy loop is over; total_profit = 0
BuyLoopEnd ==
  /\ pc = "buy"
  /\ i > Len(stocks)
  /\ total_profit' = 0
  /\ phases' = Append(phases, "Bought")
  /\ pc' = "sell"
  /\ UNCHANGED <<abort_cause, connected, conn_attempt, holdings, net_liquidation,
                 orders, retries, delay, attempt, last_response, slept, stocks,
                 reserve_fund, reserve_writes, funds_reads, available_funds,
                 allocation_per_stock, positions, buy_prices, i, priced,
                 market_price, quantity, quantities, close_time, daily_reserve,
                 log>>

\* first iteration of `for contract, quantity, exchange in positions`:
\*   _, close_time = get_market_times(exchange)
\*   while datetime.datetime.now().time() < datetime.time(*close_time):
\* get_market_times returns the dict of the exchange, so the unpacking binds
\* close_time to the key "close" and datetime.time raises TypeError before
\* the first comparison; nothing catches it.
SellLoopFirst ==
  /\ pc = "sell"
  /\ Len(positions) > 0
  /\ quantity' = positions[1][2]
  /\ close_time' = UnpackPair(get_market_times(positions[1][3]))[2]
  /\ DatetimeTime(close_time').tag = "TypeError"
  /\ Abort("TypeError")
  /\ UNCHANGED <<connected, conn_attempt, holdings, net_liquidation, orders,
                 retries, delay, attempt, last_response, slept, stocks,
                 reserve_fund, reserve_writes, funds_reads, available_funds,
                 allocation_per_stock, positions, buy_prices, i, priced,
                 market_price, quantities, total_profit, daily_reserve, phases,
                 log>>

\* `for ... in positions` over an empty list: no wait, no sell
SellLoopEmpty ==
  /\ pc = "sell"
  /\ Len(positions) = 0
  /\ phases' = phases \o <<"AwaitingClose", "Sold">>
  /\ pc' = "reconcile"
  /\ UNCHANGED <<abort_cause, connected, conn_attempt, holdings, net_liquidation,
                 orders, retries, delay, attempt, last_response, slept, stocks,
                 reserve_fund, reserve_writes, funds_reads, available_funds,
                 allocation_per_stock, positions, buy_prices, i, priced,
                 market_price, quantity, quantities, close_time, total_profit,
                 daily_reserve, log>>

\* daily_reserve = total_profit * RESERVE_PERCENTAGE
\* reserve_fund += daily_reserve; log(...)
Reconcile ==
  /\ pc = "reconcile"
  /\ daily_reserve' = DailyReserve(total_profit)
  /\ reserve_fund' = reserve_fund + daily_reserve'
  /\ reserve_writes' = reserve_writes + 1
  /\ log' = Append(log, "Daily profit")
  /\ phases' = Append(phases, "Reconciled")
  /\ pc' = "disconnect"
  /\ UNCHANGED <<abort_cause, connected, conn_attempt, holdings, net_liquidation,
                 orders, retries, delay, attempt, last_response, slept, stocks,
                 funds_reads, available_funds, allocation_per_stock, positions,
                 buy_prices, i, priced, market_price, quantity, quantities,
                 close_time, total_profit>>

\* ib.disconnect(); log("All positions sold. Trading complete.")
Disconnect ==
  /\ pc = "disconnect"
  /\ connected' = FALSE
  /\ log' = Append(log, "All positions sold. Trading complete.")
  /\ phases' = Append(phases, "Disconnected")
  /\ pc' = "done"
  /\ UNCHANGED <<abort_cause, conn_attempt, holdings, net_liquidation, orders,
                 retries, delay, attempt, last_response, slept, stocks,
                 reserve_fund, reserve_writes, funds_reads, available_funds,
                 allocation_per_stock, positions, buy_prices, i, priced,
                 market_price, quantity, quantities, close_time, total_profit,
                 daily_reserve>>

Next ==
  \/ ConnectOk
  \/ ConnectFail
  \/ ConnectExhausted
  \/ CloseAllPositions
  \/ FetchOk
  \/ FetchFail
  \/ FetchExhausted
  \/ Allocate
  \/ BuySkip
  \/ BuyPlace
  \/ BuyLoopEnd
  \/ SellLoopFirst
  \/ SellLoopEmpty
  \/ Reconcile
  \/ Disconnect

Spec == Init /\ [][Next]_vars

\* -------------------------------- fetch_trending_stocks called on its own
\* fetch_trending_stocks(retries, delay) with arguments of the caller's choice
FetchInit ==
  /\ InitCommon
  /\ pc = "fetch"
  /\ connected = TRUE
  /\ retries \in 0..MaxRetriesArg
  /\ delay \in {0, DEFAULT_DELAY}

FetchNext ==
  \/ FetchOk
  \/ FetchFail
  \/ FetchExhausted

FetchSpec == FetchInit /\ [][FetchNext]_vars

\* ================================================================ claims
Terminated == pc \in {"done", "aborted"}

ExhaustionCauses == {"BrokerConnectExhausted", "TrendFetchExhausted"}

\* number of entries of the sequence q that satisfy nothing but equality to x
CountOf(q, x) == Cardinality({n \in 1..Len(q) : q[n] = x})

\* failed attempts so far, one log line each
FetchFailures == CountOf(log, "API fetch failed")
ConnFailures == CountOf(log, "IB connection failed")

\* fetch_trending_stocks has returned a list to its caller
FetchReturned == pc = "allocate"

\* orders the broker received with the given side
OrdersOfSide(side) == {n \in 1..Len(orders) : orders[n].side = side}

\* sell orders submitted in the sell loop for positions[k]
ClosingSells(k) ==
  {n \in 1..Len(orders) :
     orders[n].origin = "sell" /\ orders[n].symbol = positions[k][1]}

\* ---------------------------------------------------------------- C1
\* C1: when the run has terminated, every OpenPosition recorded in the buy
\* phase has been matched by exactly one sell order submission.
C1_EveryPositionSoldOnce ==
  Terminated =>
    \A k \in 1..Len(positions) : Cardinality(ClosingSells(k)) = 1

\* ---------------------------------------------------------------- C2
\* the data of the successful attempt was returned after `fails` failures
ReturnedAfter(fails) ==
  /\ last_response.kind = "ok"
  /\ stocks = ParseStocks(last_response.results)
  /\ attempt = fails + 1

\* C2 as stated: after N <= retries consecutive failures the next attempt
\* is still made (it succeeds when the source answers), and a return after
\* N failures hands back that attempt's data with exactly N+1 calls made.
C2_RetryUpToMaxInclusive ==
  /\ (pc = "fetch" /\ FetchFailures = attempt /\ attempt <= retries)
       => ENABLED FetchOk
  /\ FetchReturned => ReturnedAfter(FetchFailures)

\* C2 amended: the same for N < retries only; a return never follows
\* `retries` or more failures.
C2_RetryBelowMax ==
  /\ (pc = "fetch" /\ FetchFailures = attempt /\ attempt < retries)
       => ENABLED FetchOk
  /\ FetchReturned => (FetchFailures < retries /\ ReturnedAfter(FetchFailures))

\* two failures, then one ticker, with retries = 3 and delay = 0
C2_Witness ==
  /\ FetchReturned
  /\ retries = 3
  /\ delay = 0
  /\ FetchFailures = 2
  /\ attempt = 3
  /\ Len(stocks) = 1

\* ---------------------------------------------------------------- C3
\* C3: once maxRetries attempts have failed, fetch_trending_stocks and
\* connect_ib can only raise their terminal error; at the error exactly
\* maxRetries attempts (3 for connect_ib) were made, all failed; the run is
\* aborted and takes no further step.
C3_ExhaustionIsTerminal ==
  /\ (pc = "connect" /\ ConnFailures = 3)
       => (ENABLED ConnectExhausted /\ ~ENABLED ConnectOk /\ ~ENABLED ConnectFail)
  /\ (pc = "fetch" /\ FetchFailures = retries)
       => (ENABLED FetchExhausted /\ ~ENABLED FetchOk /\ ~ENABLED FetchFail)
  /\ abort_cause = "BrokerConnectExhausted"
       => (pc = "aborted" /\ conn_attempt = 3 /\ ConnFailures = 3 /\ ~connected)
  /\ abort_cause = "TrendFetchExhausted"
       => (pc = "aborted" /\ attempt = retries /\ FetchFailures = retries)
  /\ pc = "aborted" => ~ENABLED Next

C3_Witness ==
  /\ pc = "aborted"
  /\ abort_cause = "TrendFetchExhausted"
  /\ FetchFailures = 3
  /\ ConnFailures = 2

\* ---------------------------------------------------------------- C4
\* C4: in a run aborted by exhausted retries the broker has received no
\* BUY order.
C4_NoBuyWhenExhausted ==
  abort_cause \in ExhaustionCauses => OrdersOfSide("BUY") = {}

\* aborted by fetch exhaustion after the prior holdings were liquidated
C4_Witness ==
  /\ pc = "aborted"
  /\ abort_cause = "TrendFetchExhausted"
  /\ Len(orders) = 2

FillPrices == {26000, 8000}

QuantityComputed == pc = "buy" /\ i > 1

\* q = floor(available_funds / (tickers x price))
IsFloorOf(q, funds, tickers, price) ==
  /\ q * tickers * price <= funds
  /\ funds < (q + 1) * tickers * price

\* q = available_funds / (tickers x price) truncated toward zero
IsTruncOf(q, funds, tickers, price) ==
  IF funds >= 0 THEN IsFloorOf(q, funds, tickers, price)
  ELSE /\ (q - 1) * tickers * price < funds
       /\ funds <= q * tickers * price

\* C8 as stated: quantity = floor(perTickerBudget / price) for price > 0
\* and 0 for price <= 0, whatever the sign of the investable capital.
C8_QuantityIsFloor ==
  QuantityComputed =>
    IF market_price > 0
    THEN IsFloorOf(quantity, available_funds, Len(stocks), market_price)
    ELSE quantity = 0

\* C8 amended: quantity = perTickerBudget / price truncated toward zero
\* for price > 0 (the floor when the capital is not negative) and 0 for
\* price <= 0.
C8_QuantityIsTrunc ==
  QuantityComputed =>
    IF market_price > 0
    THEN IsTruncOf(quantity, available_funds, Len(stocks), market_price)
    ELSE quantity = 0

\* a negative budget divided by a positive price, not a whole number
C8_Witness ==
  /\ QuantityComputed
  /\ available_funds < 0
  /\ market_price > 0
  /\ quantity < 0
  /\ quantity * Len(stocks) * market_price # available_funds

\* ---------------------------------------------------------------- C9
Min(a, b) == IF a < b THEN a ELSE b

\* C9: once fetch_trending_stocks has returned, stocks is the first
\* min(10, n) entries of the n-entry results array of the successful
\* response, in order, with 1 to 10 entries; allocation never runs on an
\* empty list.
C9_ResultIsNonEmptyPrefix ==
  /\ CountOf(phases, "TickersAcquired") > 0 =>
       /\ last_response.kind = "ok"
       /\ Len(stocks) = Min(10, Len(last_response.results))
       /\ \A k \in 1..Len(stocks) :
            stocks[k] = <<last_response.results[k].ticker,
                          last_response.results[k].exchange>>
       /\ Len(stocks) >= 1
       /\ Len(stocks) <= 10
  /\ funds_reads > 0 => (Len(stocks) >= 1 /\ abort_cause # "ZeroDivisionError")

\* an 11-entry answer cut to 10 and handed to the allocation
C9_Witness ==
  /\ pc = "buy"
  /\ Len(last_response.results) > 10
  /\ Len(stocks) = 10
  /\ allocation_per_stock.den = 10

\* ---------------------------------------------------------------- C10
PhaseOrder ==
  <<"Connected", "Liquidated", "TickersAcquired", "Allocated", "Bought",
    "AwaitingClose", "Sold", "Reconciled", "Disconnected">>

IsPrefix(p, q) == Len(p) <= Len(q) /\ \A k \in 1..Len(p) : p[k] = q[k]

\* C10: the phases of a run are passed in the order of PhaseOrder, each at
\* most once, and a run that ends for any reason other than exhausted
\* retries has passed all nine of them.
C10_PhasesInOrder ==
  /\ IsPrefix(phases, PhaseOrder)
  /\ (Terminated /\ abort_cause \notin ExhaustionCauses) => phases = PhaseOrder

\* ---------------------------------------------------------------- C11
\* C11: a run that has not terminated can always take a step, and it
\* terminates either disconnected with all nine phases passed or by an
\* abort caused by exhausted retries of the connection or of the fetch.
C11_EndsDisconnectedOrExhausted ==
  /\ ~Terminated => ENABLED Next
  /\ pc = "done" => (phases = PhaseOrder /\ ~connected)
  /\ pc = "aborted" => abort_cause \in ExhaustionCauses

\* ---------------------------------------------------------------- C12
AcceptedStatuses == {"Filled", "Submitted"}

\* BUY orders of the buy loop for the ticker, with an accepted status
AcceptedBuys(ticker) ==
  {n \in 1..Len(orders) :
     /\ orders[n].origin = "buy"
     /\ orders[n].symbol = ticker
     /\ orders[n].status \in AcceptedStatuses}

\* entries of positions for the ticker
PositionsOf(ticker) == {k \in 1..Len(positions) : positions[k][1] = ticker}

\* C12: when the buy loop is over, positions holds exactly one entry, with
\* the bought quantity (> 0), for each ticker whose buy order was accepted
\* (Filled or Submitted), and none for any other ticker.
C12_PositionsAreAcceptedBuys ==
  pc = "sell" =>
    \A t \in 1..Len(stocks) :
      LET ticker == stocks[t][1] IN
        IF AcceptedBuys(ticker) # {}
        THEN /\ Cardinality(AcceptedBuys(ticker)) = 1
             /\ Cardinality(PositionsOf(ticker)) = 1
             /\ \A k \in PositionsOf(ticker) : \A n \in AcceptedBuys(ticker) :
                  positions[k][2] = orders[n].qty /\ positions[k][2] > 0
        ELSE PositionsOf(ticker) = {}

\* ---------------------------------------------------------------- C13
\* orders of the run's own buy and sell loops whose status is unexpected
UnexpectedOrders ==
  {n \in 1..Len(orders) :
     /\ orders[n].origin \in {"buy", "sell"}
     /\ orders[n].status \notin AcceptedStatuses}

\* C13: every order with an unexpected status has its warning in the log,
\* the buy loop goes on after it, and a run with such an order still ends
\* disconnected, reconciled, with every position sold.
C13_RunContinuesAfterFailedOrder ==
  /\ CountOf(log, "Order failed") = Cardinality(UnexpectedOrders)
  /\ (UnexpectedOrders # {} /\ pc = "buy") => ENABLED Next
  /\ (UnexpectedOrders # {} /\ Terminated) =>
       /\ pc = "done"
       /\ CountOf(phases, "Reconciled") = 1
       /\ CountOf(phases, "Disconnected") = 1
       /\ \A k \in 1..Len(positions) : Cardinality(ClosingSells(k)) = 1

\* ---------------------------------------------------------------- C14
\* BUY orders of the buy loop for the ticker
BuysOf(ticker) ==
  {n \in 1..Len(orders) : orders[n].origin = "buy" /\ orders[n].symbol = ticker}

\* sell orders of the sell loop for the ticker
SellsOf(ticker) ==
  {n \in 1..Len(orders) : orders[n].origin = "sell" /\ orders[n].symbol = ticker}

\* the buy loop has handled every fetched ticker and computed 0 for each
AllQuantitiesZero ==
  /\ Len(stocks) > 0
  /\ Len(quantities) = Len(stocks)
  /\ \A t \in 1..Len(quantities) : quantities[t] = 0

\* C14: a ticker whose computed quantity is 0 has no buy order, no
\* OpenPosition and no sell order; a run in which every fetched ticker has
\* quantity 0 places no order of its own, computes no close time, keeps
\* total_profit = 0 and daily_reserve = 0, is never aborted and goes on
\* until it is disconnected.
C14_ZeroQuantityIsSkipped ==
  /\ \A t \in 1..Len(quantities) :
       quantities[t] = 0 =>
         /\ BuysOf(stocks[t][1]) = {}
         /\ PositionsOf(stocks[t][1]) = {}
         /\ SellsOf(stocks[t][1]) = {}
  /\ AllQuantitiesZero =>
       /\ OrdersOfSide("BUY") = {}
       /\ \A n \in 1..Len(orders) : orders[n].origin = "liquidate"
       /\ positions = <<>>
       /\ close_time = PyNone
       /\ total_profit = 0
       /\ daily_reserve = 0
       /\ pc # "aborted"
       /\ pc # "done" => ENABLED Next
       /\ pc = "done" => (phases = PhaseOrder /\ ~connected)

\* ten tickers, no capital: the run ended disconnected without an order
C14_Witness ==
  /\ pc = "done"
  /\ AllQuantitiesZero
  /\ Len(stocks) = 10
  /\ available_funds = 0
  /\ priced > 0

\* ---------------------------------------------------------------- C15
\* close_all_positions has run
Liquidated == CountOf(phases, "Liquidated") > 0

\* C15: once close_all_positions has run, the broker's first orders are one
\* SELL per holding, in order, for the holding's full quantity, with the
\* status never read, and "Closed all open positions." is logged once; no
\* other liquidation order exists; the trend source is not called and no
\* BUY is placed before that.
C15_LiquidationFirst ==
  /\ Liquidated =>
       /\ Len(orders) >= Len(holdings)
       /\ \A k \in 1..Len(holdings) :
            /\ orders[k].origin = "liquidate"
            /\ orders[k].side = "SELL"
            /\ orders[k].symbol = holdings[k].symbol
            /\ orders[k].qty = holdings[k].position
            /\ orders[k].status = "unread"
       /\ \A n \in 1..Len(orders) :
            orders[n].origin = "liquidate" <=> n <= Len(holdings)
       /\ CountOf(log, "Closed all open positions.") = 1
  /\ ~Liquidated =>
       /\ orders = <<>>
       /\ attempt = 0
       /\ CountOf(log, "Closed all open positions.") = 0

\* two holdings liquidated, then the list fetched and a BUY placed
C15_Witness ==
  /\ Liquidated
  /\ Len(holdings) = 2
  /\ attempt > 0
  /\ OrdersOfSide("BUY") # {}
  /\ Len(orders) > 2

\* ---------------------------------------------------------------- C16
IsClosingSell(o) == o.origin = "sell"

\* contracts of the sell orders of the sell loop, in submission order
SoldInOrder ==
  LET sells == SelectSeq(orders, IsClosingSell)
  IN  [n \in 1..Len(sells) |-> sells[n].symbol]

\* contracts of the positions, in the order they were bought
BoughtInOrder == [k \in 1..Len(positions) |-> positions[k][1]]

BudgetComputed == funds_reads = 1 /\ Len(stocks) > 0

\* the read has happened by the first buy, not before the list is there,
\* and the budget is the one computed from that read
C17_ReadOnceBetweenFetchAndBuy ==
  /\ funds_reads \in {0, 1}
  /\ funds_reads = 1 => CountOf(phases, "TickersAcquired") = 1
  /\ OrdersOfSide("BUY") # {} => funds_reads = 1
  /\ pc \in {"buy", "sell", "reconcile", "disconnect", "done"} => funds_reads = 1
  /\ BudgetComputed =>
       /\ available_funds * 100 = (net_liquidation - reserve_fund) * 95
       /\ allocation_per_stock = [num |-> available_funds, den |-> Len(stocks)]

\* C17: the account funds are read exactly once, after the trending list
\* is acquired and before the first buy, and no later step reads them again
\* or changes available_funds or the per-ticker budget.
C17_FundsReadOnce ==
  /\ []C17_ReadOnceBetweenFetchAndBuy
  /\ [][funds_reads = 1 =>
          UNCHANGED <<funds_reads, available_funds, allocation_per_stock>>]_vars

\* two buys made out of the one budget
C17_Witness ==
  /\ pc = "sell"
  /\ funds_reads = 1
  /\ Len(positions) = 2
  /\ allocation_per_stock.den = 2

\* ---------------------------------------------------------------- C18
RECURSIVE SpentOn(_)
\* quantity x buy-time reference price, summed over the first k buys
SpentOn(k) ==
  IF k = 0 THEN 0 ELSE SpentOn(k - 1) + positions[k][2] * buy_prices[k]

BuyOrders == {n \in 1..Len(orders) : orders[n].origin = "buy"}

\* one BUY at most per fetched ticker, each recorded with its price
OneBuyPerTicker ==
  /\ Cardinality(BuyOrders) = Len(positions)
  /\ Len(buy_prices) = Len(positions)
  /\ \A t \in 1..Len(stocks) : Cardinality(BuysOf(stocks[t][1])) <= 1
  /\ \A n \in BuyOrders : \E t \in 1..Len(stocks) : orders[n].symbol = stocks[t][1]
  /\ Cardinality(BuyOrders) <= 10

\* C18 as stated: in every state of the buy phase the cost of the BUY
\* orders so far does not exceed the investable capital, there is at most
\* one BUY per fetched ticker, and none when the capital is <= 0.
C18_SpendWithinCapital ==
  pc = "buy" =>
    /\ SpentOn(Len(positions)) <= available_funds
    /\ OneBuyPerTicker
    /\ available_funds <= 0 => BuyOrders = {}

\* C18 amended: the cost does not exceed the investable capital when that
\* is not negative, and is 0 (no BUY at all) when the capital is <= 0.
C18_SpendWithinPositiveCapital ==
  pc = "buy" =>
    /\ available_funds >= 0 => SpentOn(Len(positions)) <= available_funds
    /\ OneBuyPerTicker
    /\ available_funds <= 0 => (BuyOrders = {} /\ SpentOn(Len(positions)) = 0)

\* two tickers bought, inside the capital
C18_Witness ==
  /\ pc = "buy"
  /\ Cardinality(BuyOrders) = 2
  /\ SpentOn(2) > 0
  /\ SpentOn(2) <= available_funds

\* ---------------------------------------------------------------- C19
\* C19: at an abort by fetch exhaustion the session is connected and still
\* is, and the broker holds exactly the liquidation SELL orders of the
\* prior holdings; the session is disconnected only in a run that has
\* passed reconciliation.
C19_AbortLeavesSessionOpen ==
  /\ abort_cause = "TrendFetchExhausted" =>
       /\ connected
       /\ CountOf(phases, "Connected") = 1
       /\ CountOf(phases, "Disconnected") = 0
       /\ Len(orders) = Len(holdings)
       /\ \A k \in 1..Len(holdings) :
            /\ orders[k].side = "SELL"
            /\ orders[k].symbol = holdings[k].symbol
            /\ orders[k].qty = holdings[k].position
  /\ (CountOf(phases, "Disconnected") > 0
        \/ (~connected /\ CountOf(phases, "Connected") > 0)) =>
       /\ pc = "done"
       /\ abort_cause = ""
       /\ CountOf(phases, "Reconciled") = 1

\* the fetch gave up on a connected session with two holdings liquidated
C19_Witness ==
  /\ abort_cause = "TrendFetchExhausted"
  /\ connected
  /\ Len(holdings) = 2
  /\ Len(orders) = 2
  /\ attempt = 3

====
